---- MODULE Spec2Model ----
(***************************************************************************)
(* Model of src/index.js: the main script's loop over the input files,     *)
(* downloadDatasheets (progress file, reconciliation, p-limit scheduling)  *)
(* and the per-item chain getCookies -> downloadWithGot x USER_AGENTS ->   *)
(* downloadWithPuppeteer.                                                  *)
(*                                                                         *)
(* JavaScript runs one task at a time and switches tasks only at an await  *)
(* on I/O, so every action below is the synchronous code between two such  *)
(* awaits.  The libraries (puppeteer, got, fs streams) are the             *)
(* environment: an action that ends an I/O wait draws its outcome with \E. *)
(***************************************************************************)
EXTENDS Integers, Sequences, FiniteSets, TLC

\* ------------------------------------------------------------- bounds
MaxItems == 2          \* items of one input file
NumUserAgents == 2     \* entries of USER_AGENTS that are modelled
MAX_CONCURRENCY == 2   \* process.env.MAX_CONCURRENCY
RETRY_LIMIT == 2       \* process.env.RETRY_LIMIT

\* state.totalTasks of the object loadState builds when no file exists
Undefined == -1

\* The input files the main loop can find, in sorted order
Batches == {1, 2}
Positions == 0..(MaxItems - 1)
USER_AGENTS == 1..NumUserAgents

VARIABLES
    cursor,      \* input files the main loop has handed to downloadDatasheets
    jsonData,    \* jsonData.length of each batch
    loaded,      \* the progress file as loadState found it
    stateFile,   \* the progress file on disk
    failedJson,  \* the failure log on disk
    state,       \* the in-memory progress state of each downloadDatasheets call
    sliceStart,  \* state.lastIndex when jsonData.slice built the task list
    dd,          \* each downloadDatasheets call: "notcalled", "running", "returned", "threw"
    task,        \* per batch and input position: the task p-limit holds for the item
    hist         \* per task, what its chain has done so far (history, never read by the code)

vars == <<cursor, jsonData, loaded, stateFile, failedJson, state, sliceStart, dd, task, hist>>

\* ------------------------------------------------------------ messages
Msg404 == "404 Not Found"
Msg503Max == "503 Service Unavailable (Max retries reached)"
Msg429Max == "429 Too Many Requests (Max retries reached)"
Reason503 == "503 Service Unavailable"
CookieError == "cookie navigation failed"
PuppeteerError == "puppeteer navigation failed"

\* ------------------------------------------------------- progress file
Min(a, b) == IF a < b THEN a ELSE b

NoFile == [exists |-> FALSE, lastIndex |-> 0, totalTasks |-> Undefined, tasks |-> <<>>]

\* TaskRecords an earlier run left in a progress file: the first k items
OldTasks(k) == [j \in 1..k |-> [id |-> j - 1, status |-> "completed", reason |-> ""]]

\* Progress files a run can find: none, or one saveState wrote for a batch of
\* t items with k of them resolved.
Files ==
    {NoFile} \cup
    UNION {{[exists |-> TRUE, lastIndex |-> k, totalTasks |-> t, tasks |-> OldTasks(k)] :
                k \in 0..t} : t \in 1..MaxItems}

loadState(file) ==
    IF file.exists
    THEN [lastIndex |-> file.lastIndex, totalTasks |-> file.totalTasks, tasks |-> file.tasks]
    ELSE [lastIndex |-> 0, totalTasks |-> Undefined, tasks |-> <<>>]

saveState(st) ==
    [exists |-> TRUE, lastIndex |-> st.lastIndex, totalTasks |-> st.totalTasks,
     tasks |-> st.tasks]

\* !state.totalTasks || state.totalTasks !== jsonData.length
Mismatch(st, n) ==
    \/ st.totalTasks = Undefined
    \/ st.totalTasks = 0
    \/ st.totalTasks # n

\* Reconcile with the reset of lastIndex forgotten
ReconcileKeepsIndex(st, n) ==
    IF Mismatch(st, n) THEN [st EXCEPT !.totalTasks = n] ELSE st

Reconcile(st, n) ==
    IF Mismatch(st, n)
    THEN [st EXCEPT !.totalTasks = n, !.lastIndex = 0]
    ELSE st

\* ReconcileFile with the saveState of line 197 forgotten
ReconcileFileUnsaved(file, n) == file

\* The progress file after lines 190-198: saveState runs only in the reset branch
ReconcileFile(file, n) ==
    IF Mismatch(loadState(file), n) THEN saveState(Reconcile(loadState(file), n)) ELSE file

\* Slice taken from the start of jsonData instead of state.lastIndex
SliceFromStart(st, n) == {i \in 0..(n - 1) : i < st.totalTasks}

\* jsonData.slice(state.lastIndex, state.totalTasks): the positions that get a task
Slice(st, n) == {i \in 0..(n - 1) : st.lastIndex <= i /\ i < st.totalTasks}

\* ---------------------------------------------------------------- tasks
NoTask == [pc |-> "none", ua |-> 0, attempt |-> 0]

\* ck: how getCookies ended; resp: the answers the item's requests got so far
\* ("" none yet, "503" only 503s, "404" a 404 among them, "other");
\* fails: identities whose downloadWithGot call threw an error the inner catch
\* does not break on; fb: calls of downloadWithPuppeteer.
NoHist == [ck |-> "", resp |-> "", fails |-> 0, fb |-> 0]

Queued == [NoTask EXCEPT !.pc = "queued"]

InFlightPcs == {"cookies", "got", "puppeteer"}

\* p-limit's activeCount of one downloadDatasheets call
ActiveCount(b) == Cardinality({i \in Positions : task[b][i].pc \in InFlightPcs})

QueuedPositions(b) == {i \in Positions : task[b][i].pc = "queued"}

Init ==
    /\ cursor = 0
    /\ jsonData = [b \in Batches |-> 0]
    /\ loaded = [b \in Batches |-> NoFile]
    /\ stateFile = [b \in Batches |-> NoFile]
    /\ failedJson = [b \in Batches |-> <<>>]
    /\ state = [b \in Batches |-> loadState(NoFile)]
    /\ sliceStart = [b \in Batches |-> 0]
    /\ dd = [b \in Batches |-> "notcalled"]
    /\ task = [b \in Batches |-> [i \in Positions |-> NoTask]]
    /\ hist = [b \in Batches |-> [i \in Positions |-> NoHist]]

\* A task for every item of the input, whatever the cursor says
TasksCreatedForWholeInput(st, n) == {i \in Positions : i < n}

\* The positions that get a task: none when the short-circuit of lines 200-204
\* returns, else the slice of line 209 (Promise.all of no task returns at once)
TasksCreated(st, n) == IF st.lastIndex >= st.totalTasks THEN {} ELSE Slice(st, n)

\* One iteration of the main loop up to the await inside downloadDatasheets:
\* loadState, reconciliation, the short-circuit and the creation of the tasks.
StartBatch(b, n, file) ==
    /\ b = cursor + 1
    /\ b \in Batches
    /\ b > 1 => dd[b - 1] \in {"returned", "threw"}
    /\ LET st == Reconcile(loadState(file), n) IN
        /\ cursor' = b
        /\ jsonData' = [jsonData EXCEPT ![b] = n]
        /\ loaded' = [loaded EXCEPT ![b] = file]
        /\ state' = [state EXCEPT ![b] = st]
        /\ stateFile' = [stateFile EXCEPT ![b] = ReconcileFile(file, n)]
        /\ sliceStart' = [sliceStart EXCEPT ![b] = st.lastIndex]
        /\ dd' = [dd EXCEPT ![b] = IF TasksCreated(st, n) = {} THEN "returned" ELSE "running"]
        /\ task' = [task EXCEPT ![b] =
                [i \in Positions |-> IF i \in TasksCreated(st, n) THEN Queued ELSE NoTask]]
    /\ UNCHANGED <<failedJson, hist>>

\* p-limit starts the oldest queued task when fewer than MAX_CONCURRENCY run:
\* lines 211-225 up to the await of getCookies.
Launch(b) ==
    /\ QueuedPositions(b) # {}
    /\ ActiveCount(b) < MAX_CONCURRENCY
    /\ LET i == CHOOSE j \in QueuedPositions(b) : \A k \in QueuedPositions(b) : j <= k IN
        task' = [task EXCEPT ![b][i].pc = "cookies"]
    /\ UNCHANGED <<cursor, jsonData, loaded, stateFile, failedJson, state, sliceStart, dd,
                   hist>>

\* ------------------------------------------------- the end of a task
TaskRecord(i, status, reason) == [id |-> i, status |-> status, reason |-> reason]
FailureRecord(i, reason) == [id |-> i, reason |-> reason]

\* What evaluating the identifier isUpdatingLastIndex gives at line 277.  The
\* module never declares it (no let, const, var, import or global assignment
\* runs before the read), so the read throws a ReferenceError.
IsUpdatingLastIndex == "ReferenceError"

\* Lines 276-286 on the state st that already holds the item's TaskRecord.
\* The read at line 277 throws outside every try: the task's promise rejects
\* and lines 281-286 do not run.  Were the identifier bound to false, the
\* lines run without an await in between; were it true, the task polls.
UpdateLastIndex(st, file) ==
    CASE IsUpdatingLastIndex = "ReferenceError" ->
            [pc |-> "rejected", state |-> st, file |-> file]
      [] IsUpdatingLastIndex = "false" ->
            LET st2 == [st EXCEPT !.lastIndex = Min(st.lastIndex + 1, st.totalTasks)] IN
            [pc |-> "fulfilled", state |-> st2, file |-> saveState(st2)]
      [] OTHER ->
            [pc |-> "lockwait", state |-> st, file |-> file]

\* await Promise.all(tasks): rejects with the first rejection, resolves when
\* every task has fulfilled.
PromiseAll(b, i, pc) ==
    IF dd[b] # "running" THEN dd[b]
    ELSE IF pc = "rejected" THEN "threw"
    ELSE IF pc = "fulfilled" /\ \A j \in Positions \ {i} : task[b][j].pc \in {"none", "fulfilled"}
         THEN "returned"
         ELSE "running"

\* ------------------------------------------------------ downloadWithGot
\* How one pass of the loop at line 79 can end.  "finish": the writer's finish
\* event.  A stream error: the response stream's error event (got reports an
\* HTTP status >= 400, a timeout or a network fault there) or the writer's
\* error event.  "syncthrow": got.stream or fs.createWriteStream throws before
\* the promise of line 99 exists (an argument the library refuses).
StreamErrors == {"http404", "http503", "http429", "neterr", "writeerr"}
GotOutcomes == {"finish", "syncthrow"} \cup StreamErrors

\* error.message of the error a stream hands to reject (got's HTTPError text)
Message(o) ==
    CASE o = "http404" -> "Response code 404 (Not Found)"
      [] o = "http503" -> "Response code 503 (Service Unavailable)"
      [] o = "http429" -> "Response code 429 (Too Many Requests)"
      [] o = "neterr" -> "ETIMEDOUT"
      [] o = "writeerr" -> "EACCES"

\* The errors a synchronous throw can carry: no HTTP response exists yet, so
\* error.response is undefined (status 0 here).
SyncErrors == {[status |-> 0, message |-> "ERR_INVALID_ARG_VALUE"]}

Resolve == [kind |-> "resolve", message |-> ""]
Retry == [kind |-> "retry", message |-> ""]
Reject(m) == [kind |-> "reject", message |-> m]

\* The catch block, lines 117-141, for an error thrown inside the try
CatchBlock(e, attempt) ==
    IF e.status = 503
    THEN IF attempt < RETRY_LIMIT THEN Retry ELSE Reject(Msg503Max)
    ELSE IF e.status = 429
    THEN IF attempt < RETRY_LIMIT THEN Retry ELSE Reject(Msg429Max)
    ELSE IF attempt = RETRY_LIMIT THEN Reject(e.message) ELSE Retry

\* One pass of the loop body, lines 80-141.  The promise of line 99 is
\* returned, not awaited: its rejection settles downloadWithGot's own promise
\* and never enters the catch at line 117.
GotResult(o, e, attempt) ==
    IF o = "finish" THEN Resolve
    ELSE IF o \in StreamErrors THEN Reject(Message(o))
    ELSE CatchBlock(e, attempt)

\* The loop of line 79 runs no pass when RETRY_LIMIT < 1: the function
\* returns undefined at once.
GotReturnsAtOnce == RETRY_LIMIT < 1

\* ------------------------------------------------------ the item's chain
\* The history after one more step; the specifications that do not follow the
\* chains' histories (track = FALSE) leave hist alone.
Record(b, i, track, h) == IF track THEN [hist EXCEPT ![b][i] = h] ELSE hist

\* The task stays in flight, now waiting as t says; logs are appended to the
\* failure log on the way (appendToJsonFile).
Pending(b, i, t, logs, track, h) ==
    /\ task' = [task EXCEPT ![b][i] = t]
    /\ failedJson' = [failedJson EXCEPT ![b] = @ \o logs]
    /\ hist' = Record(b, i, track, h)
    /\ UNCHANGED <<cursor, jsonData, loaded, stateFile, state, sliceStart, dd>>

\* state.tasks.push(rec), the outer catch's appendToJsonFile (logs), then
\* lines 276-286.
Finish(b, i, rec, logs, track, h) ==
    LET tl == UpdateLastIndex([state[b] EXCEPT !.tasks = Append(@, rec)], stateFile[b]) IN
    /\ task' = [task EXCEPT ![b][i] = [NoTask EXCEPT !.pc = tl.pc]]
    /\ state' = [state EXCEPT ![b] = tl.state]
    /\ stateFile' = [stateFile EXCEPT ![b] = tl.file]
    /\ failedJson' = [failedJson EXCEPT ![b] = @ \o logs]
    /\ dd' = [dd EXCEPT ![b] = PromiseAll(b, i, tl.pc)]
    /\ hist' = Record(b, i, track, h)
    /\ UNCHANGED <<cursor, jsonData, loaded, sliceStart>>

\* line 263
Completed(b, i, track, h) == Finish(b, i, TaskRecord(i, "completed", ""), <<>>, track, h)

\* the outer catch, lines 265-274
Failed(b, i, message, track, h) ==
    Finish(b, i, TaskRecord(i, "failed", message), <<FailureRecord(i, message)>>, track, h)

\* The inner catch, lines 233-254: the FailureRecords it appends
InnerCatchLogs(i, message) ==
    IF message = Msg404 THEN <<FailureRecord(i, Msg404)>>
    ELSE IF message = Msg503Max THEN <<FailureRecord(i, Reason503)>>
    ELSE <<>>

\* The inner catch leaving the loop after any failure
InnerCatchBreaksAlways(message) == TRUE

\* ... and whether it leaves the loop over USER_AGENTS (break)
InnerCatchBreaks(message) == message \in {Msg404, Msg503Max}

\* NeedsFallback with the test inverted
NeedsFallbackInverted(success) == success

\* line 257: the fallback runs whenever success is still false
NeedsFallback(success) == ~success

\* downloadWithGot is called with identity u (line 230); with no pass to run
\* it returns at once, success becomes true and line 263 follows.
CallGot(b, i, u, logs, track, h) ==
    IF GotReturnsAtOnce
    THEN Finish(b, i, TaskRecord(i, "completed", ""), logs, track, h)
    ELSE Pending(b, i, [pc |-> "got", ua |-> u, attempt |-> 1], logs, track, h)

\* lines 257-261 once the loop has ended with success = false
AfterLoop(b, i, logs, track, h) ==
    IF NeedsFallback(FALSE)
    THEN Pending(b, i, [NoTask EXCEPT !.pc = "puppeteer"], logs, track,
                 [h EXCEPT !.fb = @ + 1])
    ELSE Finish(b, i, TaskRecord(i, "completed", ""), logs, track, h)

\* getCookies threw (it rethrows what it caught, line 71); the call sits in
\* the outer try at line 225, so the outer catch runs.
CookiesFailed(b, i, track, h) == Failed(b, i, CookieError, track, h)

\* getCookies settles
CookiesDone(b, i, ok, track) ==
    /\ task[b][i].pc = "cookies"
    /\ IF ok
       THEN CallGot(b, i, 1, <<>>, track, [hist[b][i] EXCEPT !.ck = "ok"])
       ELSE CookiesFailed(b, i, track, [hist[b][i] EXCEPT !.ck = "failed"])

\* The answers seen so far, after outcome o
Answers(resp, o) ==
    IF resp = "404" \/ o = "http404" THEN "404"
    ELSE IF o = "http503" /\ resp \in {"", "503"} THEN "503"
    ELSE "other"

\* One pass of downloadWithGot's loop ends with outcome o (e: the error of a
\* synchronous throw)
GotDone(b, i, o, e, track) ==
    /\ task[b][i].pc = "got"
    /\ LET t == task[b][i]
           r == GotResult(o, e, t.attempt)
           h1 == [hist[b][i] EXCEPT !.resp = Answers(@, o)]
           h2 == [h1 EXCEPT !.fails = IF InnerCatchBreaks(r.message) THEN @ ELSE @ + 1]
       IN CASE r.kind = "resolve" -> Completed(b, i, track, h1)
            [] r.kind = "retry" ->
                  Pending(b, i, [t EXCEPT !.attempt = @ + 1], <<>>, track, h1)
            [] OTHER ->
                  IF ~InnerCatchBreaks(r.message) /\ t.ua < NumUserAgents
                  THEN CallGot(b, i, t.ua + 1, InnerCatchLogs(i, r.message), track, h2)
                  ELSE AfterLoop(b, i, InnerCatchLogs(i, r.message), track, h2)

\* downloadWithPuppeteer settles (line 259)
PuppeteerDone(b, i, ok, track) ==
    /\ task[b][i].pc = "puppeteer"
    /\ IF ok
       THEN Completed(b, i, track, hist[b][i])
       ELSE Failed(b, i, PuppeteerError, track, hist[b][i])

\* ------------------------------------------------------ specifications
\* The steps of the tasks of the batches in B
Steps(B, track) ==
    \/ \E b \in B : Launch(b)
    \/ \E b \in B, i \in Positions, ok \in BOOLEAN : CookiesDone(b, i, ok, track)
    \/ \E b \in B, i \in Positions, o \in GotOutcomes, e \in SyncErrors :
            GotDone(b, i, o, e, track)
    \/ \E b \in B, i \in Positions, ok \in BOOLEAN : PuppeteerDone(b, i, ok, track)

\* The script run on one input file, with the history of every chain
Next ==
    \/ \E n \in 0..MaxItems, file \in Files : StartBatch(1, n, file)
    \/ Steps({1}, TRUE)

Spec == Init /\ [][Next]_vars

\* The script run on two input files
NextMain ==
    \/ \E b \in Batches : \E n \in 0..MaxItems, file \in Files : StartBatch(b, n, file)
    \/ Steps(Batches, FALSE)

SpecMain == Init /\ [][NextMain]_vars

\* ------------------------------------------------------------- claims
Resolved(b, i) == task[b][i].pc \in {"rejected", "fulfilled"}
Called(b) == dd[b] # "notcalled"
Matches(b) == ~Mismatch(loadState(loaded[b]), jsonData[b])
NothingLaunched(b) == \A i \in Positions : task[b][i].pc \in {"none", "queued"}
\* downloadDatasheets has settled and no task of the batch is queued or running
RunFinished(b) ==
    /\ dd[b] \in {"returned", "threw"}
    /\ \A i \in Positions : task[b][i].pc \notin ({"queued", "lockwait"} \cup InFlightPcs)
\* the TaskRecords of item i in a tasks sequence
RecordsOf(tasks, i) == {j \in 1..Len(tasks) : tasks[j].id = i}
\* the TaskRecords this run pushed for item i
RunRecords(b, i) ==
    {j \in (Len(loaded[b].tasks) + 1)..Len(state[b].tasks) : state[b].tasks[j].id = i}
\* the FailureRecords of item i
FailureRecords(b, i) == {j \in 1..Len(failedJson[b]) : failedJson[b][j].id = i}
InFlight == {x \in Batches \X Positions : task[x[1]][x[2]].pc \in InFlightPcs}

\* C1: after a full run of downloadDatasheets the persisted progress state has
\* lastIndex = totalTasks = n and exactly one TaskRecord for each item of the
\* batch.
C1_FullRunRecordsEveryItem ==
    \A b \in Batches :
        RunFinished(b) =>
            /\ stateFile[b].exists
            /\ stateFile[b].lastIndex = jsonData[b]
            /\ stateFile[b].totalTasks = jsonData[b]
            /\ \A i \in 0..(jsonData[b] - 1) :
                    Cardinality(RecordsOf(stateFile[b].tasks, i)) = 1

\* C2: when the persisted totalTasks equals the input length and the persisted
\* lastIndex is k, no item at a position < k gets a task (no cookie harvest, no
\* request, no fallback), and every task is for a position in k..totalTasks-1.
C2_ResumeSkipsResolvedPrefix ==
    \A b \in Batches : \A i \in Positions :
        (Called(b) /\ Matches(b)) =>
            /\ i < loaded[b].lastIndex => (task[b][i] = NoTask /\ hist[b][i] = NoHist)
            /\ task[b][i] # NoTask => (loaded[b].lastIndex <= i /\ i < loaded[b].totalTasks)

C2_Witness ==
    /\ Called(1) /\ Matches(1)
    /\ loaded[1].lastIndex = 1
    /\ Resolved(1, 1)
    /\ hist[1][1].fb = 1
    /\ task[1][0] = NoTask

\* C3: when a request of an item is answered 404, then once the item has
\* resolved the failure log holds exactly one FailureRecord for the item, with
\* reason "404 Not Found".
C3_NotFoundLogsOneRecord ==
    \A b \in Batches : \A i \in Positions :
        (hist[b][i].resp = "404" /\ Resolved(b, i)) =>
            /\ Cardinality(FailureRecords(b, i)) = 1
            /\ \A j \in FailureRecords(b, i) : failedJson[b][j].reason = Msg404

\* C4: when every request of an item is answered 503, the item resolves as
\* failed with one FailureRecord of reason "503 Service Unavailable",
\* downloadWithPuppeteer is never called for it and the task does not reject.
C4_Exhausted503SkipsFallback ==
    \A b \in Batches : \A i \in Positions :
        (hist[b][i].resp = "503" /\ Resolved(b, i)) =>
            /\ hist[b][i].fb = 0
            /\ task[b][i].pc # "rejected"
            /\ \E j \in RunRecords(b, i) : state[b].tasks[j].status = "failed"
            /\ \E j \in FailureRecords(b, i) : failedJson[b][j].reason = Reason503

\* C5: once downloadWithGot has failed for every identity with an error that
\* is neither the 404 nor the exhausted 503, downloadWithPuppeteer has been
\* called exactly once for the item; the call comes after the last identity's
\* failure and before the item's TaskRecord is pushed.
C5_FallbackOnceAfterPool ==
    \A b \in Batches : \A i \in Positions :
        /\ hist[b][i].fails = NumUserAgents =>
                /\ hist[b][i].fb = 1
                /\ task[b][i].pc = "puppeteer" \/ Resolved(b, i)
        /\ task[b][i].pc = "puppeteer" => RunRecords(b, i) = {}
        /\ hist[b][i].fb >= 1 => hist[b][i].fails = NumUserAgents

C5_Witness ==
    \E i \in Positions :
        /\ hist[1][i].fails = NumUserAgents
        /\ hist[1][i].fb = 1
        /\ Resolved(1, i)
        /\ Cardinality(RunRecords(1, i)) = 1

\* C6: in every reachable state at most MAX_CONCURRENCY items have a chain in
\* flight (started and not yet resolved).
C6_AtMostCapInFlight == Cardinality(InFlight) <= MAX_CONCURRENCY

\* C7: a failure of getCookies does not resolve the item: the chain goes on to
\* downloadWithGot, and no TaskRecord or FailureRecord is written because of
\* the cookie failure.
C7_CookieFailureSwallowed ==
    \A b \in Batches : \A i \in Positions :
        hist[b][i].ck = "failed" =>
            /\ ~Resolved(b, i) \/ hist[b][i].resp # ""
            /\ \A j \in RunRecords(b, i) : state[b].tasks[j].reason # CookieError
            /\ \A j \in FailureRecords(b, i) : failedJson[b][j].reason # CookieError

\* What the code does instead of C7: a failure of getCookies ends the item in
\* the outer catch, with no request and no fallback made for it, one TaskRecord
\* with status failed and one FailureRecord, both with the cookie error's
\* message.
CookieFailureFailsItem ==
    \A b \in Batches : \A i \in Positions :
        hist[b][i].ck = "failed" =>
            /\ Resolved(b, i)
            /\ hist[b][i].resp = "" /\ hist[b][i].fails = 0 /\ hist[b][i].fb = 0
            /\ Cardinality(RunRecords(b, i)) = 1
            /\ \A j \in RunRecords(b, i) :
                    state[b].tasks[j] = TaskRecord(i, "failed", CookieError)
            /\ Cardinality(FailureRecords(b, i)) = 1
            /\ \A j \in FailureRecords(b, i) : failedJson[b][j].reason = CookieError

\* C8: if the persisted totalTasks differs from the input length or no state
\* is persisted, lastIndex is 0 and the reset state is on disk before any task
\* is launched; if totalTasks matches, lastIndex is as persisted.
C8_ResetBeforeFetching ==
    \A b \in Batches :
        Called(b) =>
            IF Matches(b)
            THEN /\ sliceStart[b] = loaded[b].lastIndex
                 /\ NothingLaunched(b) =>
                        (state[b].lastIndex = loaded[b].lastIndex /\ stateFile[b] = loaded[b])
            ELSE /\ sliceStart[b] = 0
                 /\ stateFile[b].exists
                 /\ stateFile[b].totalTasks = jsonData[b]
                 /\ NothingLaunched(b) =>
                        (state[b].lastIndex = 0 /\ stateFile[b].lastIndex = 0)

C8_Witness ==
    /\ Called(1) /\ ~Matches(1)
    /\ loaded[1].exists /\ loaded[1].lastIndex > 0
    /\ stateFile[1].lastIndex = 0
    /\ \E i \in Positions : hist[1][i].ck = "ok"

\* C9: when reconciliation detects a totalTasks mismatch, the resulting state,
\* in memory and on disk, has lastIndex = 0, totalTasks = the input length and
\* an empty tasks sequence.
C9_ResetClearsTasks ==
    \A b \in Batches :
        (Called(b) /\ ~Matches(b) /\ NothingLaunched(b)) =>
            /\ state[b].lastIndex = 0 /\ stateFile[b].lastIndex = 0
            /\ state[b].totalTasks = jsonData[b] /\ stateFile[b].totalTasks = jsonData[b]
            /\ state[b].tasks = <<>> /\ stateFile[b].tasks = <<>>

\* C10: after reconciliation, in every state of a run and in every progress
\* file, 0 <= lastIndex <= totalTasks.
C10_LastIndexInRange ==
    \A b \in Batches :
        Called(b) =>
            /\ 0 <= state[b].lastIndex /\ state[b].lastIndex <= state[b].totalTasks
            /\ stateFile[b].exists =>
                    (0 <= stateFile[b].lastIndex /\
                     stateFile[b].lastIndex <= stateFile[b].totalTasks)

C10_Witness ==
    /\ Called(1) /\ ~Matches(1)
    /\ loaded[1].lastIndex > jsonData[1]
    /\ jsonData[1] > 0
    /\ \A i \in 0..(jsonData[1] - 1) : Resolved(1, i)

\* the TaskRecords of item i that this run has written to the progress file
DiskRunRecords(b, i) ==
    {j \in (Len(loaded[b].tasks) + 1)..Len(stateFile[b].tasks) : stateFile[b].tasks[j].id = i}
ResolvedPositions(b) == {i \in Positions : Resolved(b, i)}

\* C11: an exception raised while an item is processed is caught inside the
\* item's task: the task pushes a failed TaskRecord carrying the message and its
\* promise is never rejected.
C11_TaskNeverRejects ==
    \A b \in Batches : \A i \in Positions :
        /\ task[b][i].pc # "rejected"
        /\ (Resolved(b, i) /\ hist[b][i].ck = "failed") =>
                \E j \in RunRecords(b, i) :
                    /\ state[b].tasks[j].status = "failed"
                    /\ state[b].tasks[j].reason = CookieError

\* C12: in every state (every point at which the process may stop), each item
\* whose chain has resolved has its TaskRecord in the progress file on disk,
\* and the persisted lastIndex counts the resolved items of the run.
C12_ResolvedItemsAreOnDisk ==
    \A b \in Batches :
        Called(b) =>
            /\ \A i \in ResolvedPositions(b) : DiskRunRecords(b, i) # {}
            /\ stateFile[b].lastIndex = sliceStart[b] + Cardinality(ResolvedPositions(b))

\* C13: when the state after reconciliation has lastIndex >= totalTasks,
\* downloadDatasheets returns normally and creates no task: no item is
\* harvested, fetched or rendered, no TaskRecord and no FailureRecord is
\* appended, and lastIndex keeps its value, in memory and on disk.
C13_NothingToDoReturnsAtOnce ==
    \A b \in Batches :
        (Called(b) /\ sliceStart[b] >= state[b].totalTasks) =>
            /\ dd[b] = "returned"
            /\ \A i \in Positions : task[b][i] = NoTask /\ hist[b][i] = NoHist
            /\ state[b] = Reconcile(loadState(loaded[b]), jsonData[b])
            /\ state[b].lastIndex = sliceStart[b]
            /\ stateFile[b] = ReconcileFile(loaded[b], jsonData[b])
            /\ failedJson[b] = <<>>

C13_Witness ==
    /\ Called(1) /\ Matches(1)
    /\ jsonData[1] = MaxItems
    /\ loaded[1].lastIndex = MaxItems
    /\ Len(loaded[1].tasks) > 0
    /\ dd[1] = "returned"

\* C14: each resolution appends one TaskRecord and advances lastIndex by one:
\* after k resolutions of a run that started at cursor c, lastIndex = c + k and
\* the run has added lastIndex - c TaskRecords, in memory and in every state
\* that saveState wrote.
C14_OneIncrementPerResolution ==
    \A b \in Batches :
        Called(b) =>
            /\ state[b].lastIndex = sliceStart[b] + Cardinality(ResolvedPositions(b))
            /\ Len(state[b].tasks) - Len(loaded[b].tasks) = state[b].lastIndex - sliceStart[b]
            /\ Len(stateFile[b].tasks) - Len(loaded[b].tasks)
                    = stateFile[b].lastIndex - sliceStart[b]

\* No task is ever inside or waiting at the lastIndex lock of lines 276-284.
NoTaskAtTheLock == \A b \in Batches : \A i \in Positions : task[b][i].pc # "lockwait"

\* C15: downloadWithPuppeteer is invoked only after downloadWithGot was tried
\* with every identity of USER_AGENTS, in pool order, and each of them ended in
\* failure: identity u is tried only after the u - 1 identities before it have
\* failed, the fallback is not running while an identity is still being tried,
\* and an item resolved before the last identity failed never had a fallback.
C15_FallbackOnlyAfterWholePool ==
    \A b \in Batches : \A i \in Positions :
        /\ task[b][i].pc = "got" =>
                (task[b][i].ua = hist[b][i].fails + 1 /\ hist[b][i].fb = 0)
        /\ task[b][i].pc = "puppeteer" =>
                (hist[b][i].fails = NumUserAgents /\ hist[b][i].ck = "ok")
        /\ (Resolved(b, i) /\ hist[b][i].fails < NumUserAgents) => hist[b][i].fb = 0

C15_Witness ==
    /\ task[1][0].pc = "puppeteer"
    /\ hist[1][0].fails = NumUserAgents
    /\ hist[1][0].resp = "other"
    /\ Resolved(1, 1) /\ hist[1][1].fails = 1 /\ hist[1][1].fb = 0

\* C16: once a request of an item was answered 404, downloadWithGot is not
\* called again for the item: no further identity is tried.
C16_NotFoundStopsTheLoop ==
    \A b \in Batches : \A i \in Positions :
        hist[b][i].resp = "404" => task[b][i].pc # "got"

\* C17: downloadWithGot makes at most RETRY_LIMIT requests for an item and
\* identity, and when a request fails with attempts remaining it makes another
\* request with the same identity: a pass that is not the RETRY_LIMIT-th and
\* does not end in success is followed by the next pass of the same call.
C17_RetriesUntilLimit ==
    [][\A b \in Batches : \A i \in Positions :
        (/\ task[b][i].pc = "got"
         /\ task[b][i].attempt < RETRY_LIMIT
         /\ task'[b][i] # task[b][i]
         /\ ~Resolved(b, i)') =>
            task'[b][i] = [task[b][i] EXCEPT !.attempt = @ + 1]]_vars

\* downloadWithGot never starts a pass beyond the RETRY_LIMIT-th.
AtMostRetryLimitRequests ==
    \A b \in Batches : \A i \in Positions :
        task[b][i].pc = "got" => (1 <= task[b][i].attempt /\ task[b][i].attempt <= RETRY_LIMIT)

\* C18: with MAX_CONCURRENCY >= 2, when a later item of the batch resolves
\* while an earlier one is still unresolved, the persisted lastIndex moves past
\* the earlier item's position: the progress file then says lastIndex = k with
\* an unresolved item at a position < k, which a resumed run would skip.
C18_CursorPassesUnresolvedItem ==
    \A b \in Batches : \A i \in Positions : \A j \in Positions :
        (MAX_CONCURRENCY >= 2 /\ i < j /\ Resolved(b, j) /\ ~Resolved(b, i)
            /\ task[b][i].pc \in InFlightPcs) =>
                stateFile[b].lastIndex > i

\* The state C18 describes is never reached: no progress file of a run counts
\* an item at a position above an unresolved one, because lastIndex never
\* moves after reconciliation.
CursorNeverPassesUnresolvedItem ==
    \A b \in Batches :
        Called(b) =>
            /\ stateFile[b].lastIndex = sliceStart[b]
            /\ \A i \in Positions :
                    (task[b][i] # NoTask /\ ~Resolved(b, i)) => stateFile[b].lastIndex <= i

\* The run on one input file when p-limit and every pending call make
\* progress: a task that can take a step eventually takes one.
TaskSteps(i) ==
    \/ Launch(1) /\ task[1][i].pc = "queued"
    \/ \E ok \in BOOLEAN : CookiesDone(1, i, ok, TRUE)
    \/ \E o \in GotOutcomes, e \in SyncErrors : GotDone(1, i, o, e, TRUE)
    \/ \E ok \in BOOLEAN : PuppeteerDone(1, i, ok, TRUE)

SpecFair == Spec /\ \A i \in Positions : WF_vars(TaskSteps(i))

\* C19: every launched item ends Completed or Failed, and downloadDatasheets
\* returns once all the items it launched have resolved: it never throws, and
\* it has not settled while a task it created is still unresolved.
C19_ReturnsOnceAllResolved ==
    \A b \in Batches :
        /\ dd[b] # "threw"
        /\ dd[b] = "returned" =>
                \A i \in Positions : task[b][i] # NoTask => Resolved(b, i)

\* Under fair scheduling every task that was created pushes its TaskRecord and
\* settles: none waits forever at the lock of line 277.
EveryTaskSettles ==
    \A i \in Positions : (task[1][i].pc = "queued") ~> Resolved(1, i)

\* the failed TaskRecords of item i in a tasks sequence
FailedRecordsOf(tasks, i) == {j \in RecordsOf(tasks, i) : tasks[j].status = "failed"}

\* C20: after a run the progress file and the failure log agree on every item
\* the run resolved: the progress file holds a failed TaskRecord of the item iff
\* the failure log holds a FailureRecord of it, a completed item has no
\* FailureRecord, and a failed item has exactly one, with the TaskRecord's
\* reason.
C20_ProgressAndFailureLogAgree ==
    \A b \in Batches : \A i \in Positions :
        (RunFinished(b) /\ Resolved(b, i)) =>
            /\ FailedRecordsOf(stateFile[b].tasks, i) # {} <=> FailureRecords(b, i) # {}
            /\ \A j \in FailedRecordsOf(stateFile[b].tasks, i) :
                    /\ Cardinality(FailureRecords(b, i)) = 1
                    /\ \A k \in FailureRecords(b, i) :
                            failedJson[b][k].reason = stateFile[b].tasks[j].reason

\* The TaskRecords a run pushes in memory and the FailureRecords it appends to
\* a failure log that was empty do agree, in every state.
MemoryAndFailureLogAgree ==
    \A b \in Batches : \A i \in Positions :
        /\ Cardinality(RunRecords(b, i)) = IF Resolved(b, i) THEN 1 ELSE 0
        /\ \A j \in RunRecords(b, i) :
            IF state[b].tasks[j].status = "failed"
            THEN /\ Cardinality(FailureRecords(b, i)) = 1
                 /\ \A k \in FailureRecords(b, i) :
                        failedJson[b][k].reason = state[b].tasks[j].reason
            ELSE FailureRecords(b, i) = {}
        /\ RunRecords(b, i) = {} => FailureRecords(b, i) = {}
====
